---- MODULE Spec2Model ----
(***************************************************************************)
(* Name discovery of rope.contrib.autoimport.parse: the source extractor   *)
(* (get_names_from_file / parse_all), the per-module dispatcher            *)
(* (get_names), the orchestrator (find_all_names_in_package) and the       *)
(* reflective extractor (get_names_from_compiled).                         *)
(*                                                                         *)
(* Python strings are sequences of one-character strings, so startswith,   *)
(* "contains" and concatenation are computed, not assumed.  A syntax tree  *)
(* is a sequence of statement records; a call of one of the four functions *)
(* is one action, and its outcome (return value, propagated exception,     *)
(* files opened, diagnostics printed, modules imported) is the state.      *)
(***************************************************************************)
EXTENDS Integers, Sequences, FiniteSets, TLC

VARIABLES op, args, ret, exc, opened, printed, loads, scanned

vars == <<op, args, ret, exc, opened, printed, loads, scanned>>

(* Bounds of the model. *)
MaxStmts == 3
MaxFiles == 3

(***************************************************************************)
(* Strings                                                                 *)
(***************************************************************************)
s_foo == <<"f", "o", "o">>
s_Bar == <<"B", "a", "r">>
s_hidden == <<"_", "h", "i", "d">>
s_zed == <<"z", "e", "d">>
s_x == <<"x">>
s_inner == <<"i", "n">>
s_all == <<"_", "_", "a", "l", "l", "_", "_">>
s_init == <<"_", "_", "i", "n", "i", "t", "_", "_">>
s_py == <<".", "p", "y">>
s_so == <<".", "s", "o">>
s_txt == <<".", "t", "x", "t">>
s_dot == <<".">>
s_pkg == <<"p", "k", "g">>
s_a == <<"a">>
s_b == <<"_", "b">>
s_c_d == <<"c", "_", "d">>
s_mod == <<"m", "o", "d">>
s_ext == <<"e", "x", "t">>
s_gone == <<"g", "o", "n", "e">>
s_half == <<"h", "a", "l", "f">>
s_bad == <<"b", "a", "d">>
s_priv == <<"_", "e", "x", "t">>
s_builtins == <<"b", "u", "i", "l", "t", "i", "n", "s">>
s_python_crun == <<"p", "y", "t", "h", "o", "n", "_", "c", "r", "u", "n">>
s_DATA == <<"D", "A", "T", "A">>
s_helper == <<"_", "h", "l", "p">>
s_len == <<"l", "e", "n">>

startswith(s, prefix) ==
    /\ Len(s) >= Len(prefix)
    /\ SubSeq(s, 1, Len(prefix)) = prefix

contains(s, c) == \E i \in 1..Len(s) : s[i] = c

Digits == <<"0", "1", "2", "3", "4", "5", "6", "7", "8", "9">>

RECURSIVE Decimal(_)
Decimal(n) ==
    IF n < 10 THEN <<Digits[n + 1]>>
    ELSE Decimal(n \div 10) \o <<Digits[(n % 10) + 1]>>

(* str(item.value) of an ast.Constant: a str is itself, an int its digits. *)
PyStr(v) == IF v.t = "str" THEN v.s ELSE Decimal(v.n)

StrConst(s) == [t |-> "str", s |-> s]
IntConst(n) == [t |-> "int", n |-> n]

(***************************************************************************)
(* Syntax trees (the ast node kinds the extractor distinguishes)           *)
(***************************************************************************)
Name(id) == [kind |-> "Name", id |-> id]
Attribute == [kind |-> "Attribute"]
TupleTarget == [kind |-> "Tuple"]
Constant(v) == [kind |-> "Constant", value |-> v]
List(elts) == [kind |-> "List", elts |-> elts]
TupleExpr(elts) == [kind |-> "Tuple", elts |-> elts]
Call == [kind |-> "Call"]
Assign(targets, value) == [kind |-> "Assign", targets |-> targets, value |-> value]
FunctionDef(name) == [kind |-> "FunctionDef", name |-> name]
ClassDef(name, body) == [kind |-> "ClassDef", name |-> name, body |-> body]
Import == [kind |-> "Import"]

(* Provenance tags; only .value reaches a record. *)
Source(name, value) == [name |-> name, value |-> value]
SourceInputs == {Source("PROJECT", 0), Source("SITE_PACKAGE", 4)}

(* A Name record: (name, modname, package, source value). *)
NameRecord(name, modname, package, package_source) ==
    <<name, modname, package, package_source.value>>

(***************************************************************************)
(* Inputs: top-level statements and files                                  *)
(***************************************************************************)
StmtInputs ==
    { FunctionDef(s_foo),
      ClassDef(s_Bar, <<FunctionDef(s_inner)>>),
      Assign(<<Name(s_hidden)>>, Constant(IntConst(1))),
      Assign(<<Attribute, Name(s_foo)>>, Constant(IntConst(1))),
      Assign(<<TupleTarget>>, TupleExpr(<<Constant(IntConst(1)), Constant(IntConst(2))>>)),
      Assign(<<Name(s_all)>>, List(<<Constant(StrConst(s_foo)), Constant(StrConst(s_hidden))>>)),
      Assign(<<Name(s_all)>>, List(<<Constant(StrConst(s_zed))>>)),
      Assign(<<Name(s_all)>>, List(<<>>)),
      Assign(<<Name(s_all)>>, TupleExpr(<<Constant(StrConst(s_foo))>>)),
      Assign(<<Name(s_all)>>, List(<<Constant(StrConst(s_foo)), Name(s_Bar)>>)),
      Assign(<<Name(s_all), Name(s_x)>>, Call),
      Assign(<<Name(s_all)>>, List(<<Constant(IntConst(12))>>)),
      Import }

BodyInputs == UNION {[1..n -> StmtInputs] : n \in 0..MaxStmts}

SourceFile(stem, suffix, status, body) ==
    [stem |-> stem, suffix |-> suffix, status |-> status, body |-> body]

FileName(file) == file.stem \o file.suffix

(* Files handed directly to the source extractor. *)
FileInputs ==
    {SourceFile(s_x, s_py, "ok", b) : b \in BodyInputs}
    \cup {SourceFile(s_x, s_py, st, <<>>) : st \in {"syntax_error", "unreadable"}}

(***************************************************************************)
(* Outcomes of a call                                                      *)
(***************************************************************************)
Returns(value, files, diag) ==
    [ret |-> value, exc |-> "none", opened |-> files, printed |-> diag, loads |-> 0]

Raises(e, files, diag) ==
    [ret |-> <<>>, exc |-> e, opened |-> files, printed |-> diag, loads |-> 0]

(***************************************************************************)
(* parse_all                                                               *)
(***************************************************************************)
RECURSIVE parse_all_items(_, _, _, _, _, _)
parse_all_items(elts, i, all_results, modname, package, package_source) ==
    IF i > Len(elts) THEN [exc |-> "none", value |-> all_results]
    ELSE IF elts[i].kind # "Constant" THEN [exc |-> "AssertionError", value |-> <<>>]
    ELSE parse_all_items(elts, i + 1,
             Append(all_results,
                    NameRecord(PyStr(elts[i].value), modname, package, package_source)),
             modname, package, package_source)

(* Faulty variant: names starting with an underscore are dropped from __all__. *)
RECURSIVE parse_all_public_items(_, _, _, _, _, _)
parse_all_public_items(elts, i, all_results, modname, package, package_source) ==
    IF i > Len(elts) THEN [exc |-> "none", value |-> all_results]
    ELSE IF elts[i].kind # "Constant" THEN [exc |-> "AssertionError", value |-> <<>>]
    ELSE parse_all_public_items(elts, i + 1,
             IF startswith(PyStr(elts[i].value), <<"_">>) THEN all_results
             ELSE Append(all_results,
                    NameRecord(PyStr(elts[i].value), modname, package, package_source)),
             modname, package, package_source)

parse_all_public(node, modname, package, package_source) ==
    IF node.value.kind # "List" THEN [exc |-> "AssertionError", value |-> <<>>]
    ELSE parse_all_public_items(node.value.elts, 1, <<>>, modname, package, package_source)

(* Faulty variant: a tuple is accepted and a non-constant element ends the list. *)
RECURSIVE parse_all_lenient_items(_, _, _, _, _, _)
parse_all_lenient_items(elts, i, all_results, modname, package, package_source) ==
    IF i > Len(elts) \/ elts[i].kind # "Constant"
    THEN [exc |-> "none", value |-> all_results]
    ELSE parse_all_lenient_items(elts, i + 1,
             Append(all_results,
                    NameRecord(PyStr(elts[i].value), modname, package, package_source)),
             modname, package, package_source)

parse_all_lenient(node, modname, package, package_source) ==
    IF node.value.kind \notin {"List", "Tuple"} THEN [exc |-> "AssertionError", value |-> <<>>]
    ELSE parse_all_lenient_items(node.value.elts, 1, <<>>, modname, package, package_source)

parse_all(node, modname, package, package_source) ==
    IF node.value.kind # "List" THEN [exc |-> "AssertionError", value |-> <<>>]
    ELSE parse_all_items(node.value.elts, 1, <<>>, modname, package, package_source)

(***************************************************************************)
(* get_names_from_file                                                     *)
(***************************************************************************)
(* Faulty variant: the privacy filter ignores the underlined flag. *)
keep_public_only(node_name, underlined) == ~startswith(node_name, <<"_">>)

(* The filter of the collected names. *)
keep_name(node_name, underlined) ==
    underlined \/ ~startswith(node_name, <<"_">>)

(* The loop over node.targets: either the function returns, or the loop    *)
(* ends with node_names.  A failed assert is caught and the loop goes on.  *)
RECURSIVE scan_targets(_, _, _, _, _, _)
scan_targets(node, j, node_names, modname, package, package_source) ==
    IF j > Len(node.targets) THEN [returned |-> FALSE, value |-> node_names]
    ELSE LET target == node.targets[j] IN
         IF target.kind # "Name"
         THEN scan_targets(node, j + 1, node_names, modname, package, package_source)
         ELSE IF target.id = s_all
         THEN LET parsed == parse_all(node, modname, package, package_source) IN
              IF parsed.exc = "AssertionError"
              THEN scan_targets(node, j + 1, node_names, modname, package, package_source)
              ELSE [returned |-> TRUE, value |-> parsed.value]
         ELSE scan_targets(node, j + 1, Append(node_names, target.id),
                           modname, package, package_source)

RECURSIVE extend_results(_, _, _, _, _, _, _)
extend_results(results, node_names, k, modname, package, package_source, underlined) ==
    IF k > Len(node_names) THEN results
    ELSE extend_results(
             IF keep_name(node_names[k], underlined)
             THEN Append(results, NameRecord(node_names[k], modname, package, package_source))
             ELSE results,
             node_names, k + 1, modname, package, package_source, underlined)

(* The loop over the children of the root node. *)
RECURSIVE walk_nodes(_, _, _, _, _, _, _)
walk_nodes(body, i, results, modname, package, package_source, underlined) ==
    IF i > Len(body) THEN [returned |-> FALSE, value |-> results]
    ELSE LET node == body[i] IN
         IF node.kind = "Assign"
         THEN LET t == scan_targets(node, 1, <<>>, modname, package, package_source) IN
              IF t.returned THEN t
              ELSE walk_nodes(body, i + 1,
                       extend_results(results, t.value, 1, modname, package,
                                      package_source, underlined),
                       modname, package, package_source, underlined)
         ELSE IF node.kind \in {"FunctionDef", "ClassDef"}
         THEN walk_nodes(body, i + 1,
                  extend_results(results, <<node.name>>, 1, modname, package,
                                 package_source, underlined),
                  modname, package, package_source, underlined)
         ELSE walk_nodes(body, i + 1, results, modname, package, package_source, underlined)

get_names_from_file(module, modname, package, package_source, only_all, underlined) ==
    IF module.status = "unreadable" THEN Raises("OSError", <<FileName(module)>>, 0)
    ELSE IF module.status = "syntax_error" THEN Returns(<<>>, <<FileName(module)>>, 1)
    ELSE LET w == walk_nodes(module.body, 1, <<>>, modname, package, package_source,
                             underlined) IN
         IF w.returned THEN Returns(w.value, <<FileName(module)>>, 0)
         ELSE IF only_all THEN Returns(<<>>, <<FileName(module)>>, 0)
         ELSE Returns(w.value, <<FileName(module)>>, 0)

(***************************************************************************)
(* Paths: a directory with its listing (in glob order), or a single file   *)
(***************************************************************************)
DirPath(name, files, origin) ==
    [kind |-> "dir", name |-> name, files |-> files, origin |-> origin]

FilePath(file, origin) == [kind |-> "file", file |-> file, origin |-> origin]

def_foo == FunctionDef(s_foo)
class_Bar == ClassDef(s_Bar, <<FunctionDef(s_inner)>>)
assign_hidden == Assign(<<Name(s_hidden)>>, Constant(IntConst(1)))
all_foo_hidden ==
    Assign(<<Name(s_all)>>, List(<<Constant(StrConst(s_foo)), Constant(StrConst(s_hidden))>>))
all_zed == Assign(<<Name(s_all)>>, List(<<Constant(StrConst(s_zed))>>))
all_empty == Assign(<<Name(s_all)>>, List(<<>>))
all_tuple == Assign(<<Name(s_all)>>, TupleExpr(<<Constant(StrConst(s_foo))>>))

(* The files a package directory may hold. *)
DirFileInputs ==
    { SourceFile(s_init, s_py, "ok", <<all_foo_hidden, def_foo, class_Bar>>),
      SourceFile(s_init, s_py, "ok", <<all_empty, def_foo>>),
      SourceFile(s_init, s_py, "ok", <<def_foo, assign_hidden>>),
      SourceFile(s_init, s_py, "ok", <<all_tuple, class_Bar>>),
      SourceFile(s_init, s_py, "syntax_error", <<>>),
      SourceFile(s_init, s_py, "unreadable", <<>>),
      SourceFile(s_a, s_py, "ok", <<def_foo, assign_hidden>>),
      SourceFile(s_a, s_py, "ok", <<all_zed, def_foo>>),
      SourceFile(s_a, s_py, "syntax_error", <<>>),
      SourceFile(s_a, s_py, "unreadable", <<>>),
      SourceFile(s_b, s_py, "ok", <<class_Bar>>),
      SourceFile(s_c_d, s_py, "ok", <<def_foo>>),
      SourceFile(s_ext, s_so, "binary", <<>>) }

DistinctNames(files) ==
    \A i, j \in 1..Len(files) : i # j => FileName(files[i]) # FileName(files[j])

ListingInputs ==
    UNION {{fs \in [1..n -> DirFileInputs] : DistinctNames(fs)} : n \in 0..MaxFiles}

DirInputs == {DirPath(s_pkg, fs, Source("PROJECT", 0)) : fs \in ListingInputs}

SoInputs ==
    {FilePath(SourceFile(stem, s_so, "binary", <<>>), Source("SITE_PACKAGE", 4)) :
        stem \in {s_mod, s_ext, s_gone, s_half, s_bad}}

SingleFileInputs ==
    {FilePath(f, Source("SITE_PACKAGE", 4)) : f \in DirFileInputs}
    \cup {FilePath(SourceFile(s_a, s_txt, "binary", <<>>), Source("SITE_PACKAGE", 4))}

PathInputs == DirInputs \cup SingleFileInputs \cup SoInputs

(* pathlib: modpath.is_dir(), (modpath / "__init__.py").exists(), glob("*.py") *)
is_dir(modpath) == modpath.kind = "dir"

has_init(modpath) ==
    \E i \in 1..Len(modpath.files) : FileName(modpath.files[i]) = s_init \o s_py

init_file(modpath) ==
    modpath.files[CHOOSE i \in 1..Len(modpath.files) :
                      FileName(modpath.files[i]) = s_init \o s_py]

IsPy(file) == file.suffix = s_py

glob_py(modpath) == SelectSeq(modpath.files, IsPy)

(***************************************************************************)
(* get_names                                                               *)
(***************************************************************************)
(* Faulty variant: an empty __all__ of the initializer is authoritative too. *)
init_names_win_even_empty(names) == Len(names) >= 0

(* The test that makes the initializer's __all__ the whole result. *)
init_names_win(names) == Len(names) > 0

(* The name of a file's module inside the directory module `modname`. *)
file_modname(modname, file) == modname \o s_dot \o file.stem

(* The loop over modpath.glob("*.py"); an exception of the extractor       *)
(* propagates and ends it.                                                 *)
RECURSIVE scan_files(_, _, _, _, _, _, _)
scan_files(files, i, acc, modname, package_name, package_source, underlined) ==
    IF i > Len(files) THEN acc
    ELSE LET o == get_names_from_file(files[i], file_modname(modname, files[i]),
                                      package_name, package_source, FALSE, underlined) IN
         IF o.exc # "none"
         THEN Raises(o.exc, acc.opened \o o.opened, acc.printed + o.printed)
         ELSE scan_files(files, i + 1,
                  Returns(acc.ret \o o.ret, acc.opened \o o.opened,
                          acc.printed + o.printed),
                  modname, package_name, package_source, underlined)

get_names(modpath, modname, package_name, package_source, underlined) ==
    IF is_dir(modpath)
    THEN IF has_init(modpath)
         THEN LET o == get_names_from_file(init_file(modpath), modname, package_name,
                                           package_source, TRUE, FALSE) IN
              IF o.exc # "none" THEN o
              ELSE IF init_names_win(o.ret) THEN o
              ELSE scan_files(glob_py(modpath), 1, Returns(<<>>, o.opened, o.printed),
                              modname, package_name, package_source, underlined)
         ELSE scan_files(glob_py(modpath), 1, Returns(<<>>, <<>>, 0),
                         modname, package_name, package_source, underlined)
    ELSE IF modpath.file.suffix = s_py
    THEN get_names_from_file(modpath.file, modname, package_name, package_source,
                             FALSE, underlined)
    ELSE Returns(<<>>, <<>>, 0)

(***************************************************************************)
(* get_names_from_compiled                                                 *)
(***************************************************************************)
Member(name, kind) == [name |-> name, kind |-> kind]

LoadedModule(has_all, all, members) ==
    [has_all |-> has_all, all |-> all, members |-> members]

NoModule == LoadedModule(FALSE, <<>>, <<>>)

(* What members a module without __all__ shows to inspect.getmembers       *)
(* (sorted by name).                                                       *)
PlainMembers ==
    << Member(s_Bar, "class"), Member(s_DATA, "data"), Member(s_helper, "function"),
       Member(s_foo, "function"), Member(s_len, "builtin") >>

(* The host runtime: what importing each identifier does. *)
import_module(package) ==
    CASE package = s_mod ->
           [exc |-> "none",
            module |-> LoadedModule(TRUE, <<StrConst(s_zed), StrConst(s_hidden),
                                            IntConst(7)>>, PlainMembers)]
      [] package \in {s_ext, s_priv, s_builtins} ->
           [exc |-> "none", module |-> LoadedModule(FALSE, <<>>, PlainMembers)]
      [] package = s_gone -> [exc |-> "ModuleNotFoundError", module |-> NoModule]
      [] package = s_half -> [exc |-> "ImportError", module |-> NoModule]
      [] package = s_bad -> [exc |-> "RuntimeError", module |-> NoModule]
      [] OTHER -> [exc |-> "SystemError", module |-> NoModule]

ModuleInputs ==
    {s_mod, s_ext, s_priv, s_builtins, s_python_crun, s_gone, s_half, s_bad}

(* except ImportError: the exception is an ImportError or a subclass. *)
is_import_error(e) == e \in {"ImportError", "ModuleNotFoundError"}

(* Faulty variant: only builtins is on the deny list. *)
banned_builtins_only == {s_builtins}

banned == {s_builtins, s_python_crun}

RECURSIVE all_names(_, _, _, _, _)
all_names(all, i, results, package, source) ==
    IF i > Len(all) THEN results
    ELSE all_names(all, i + 1,
                   Append(results, NameRecord(PyStr(all[i]), package, package, source)),
                   package, source)

RECURSIVE member_names(_, _, _, _, _, _)
member_names(members, i, results, package, source, underlined) ==
    IF i > Len(members) THEN results
    ELSE member_names(members, i + 1,
             IF /\ underlined \/ ~startswith(members[i].name, <<"_">>)
                /\ members[i].kind \in {"class", "function", "builtin"}
             THEN Append(results, NameRecord(members[i].name, package, package, source))
             ELSE results,
             package, source, underlined)

Imported(out) == [out EXCEPT !.loads = 1]

get_names_from_compiled(package, source, underlined) ==
    IF package \in banned \/ (startswith(package, <<"_">>) /\ ~underlined)
    THEN Returns(<<>>, <<>>, 0)
    ELSE LET imp == import_module(package) IN
         IF imp.exc # "none"
         THEN IF is_import_error(imp.exc) THEN Imported(Returns(<<>>, <<>>, 0))
              ELSE Imported(Raises(imp.exc, <<>>, 0))
         ELSE IF imp.module.has_all
         THEN Imported(Returns(all_names(imp.module.all, 1, <<>>, package, source),
                               <<>>, 0))
         ELSE Imported(Returns(member_names(imp.module.members, 1, <<>>, package,
                                            source, underlined), <<>>, 0))

(***************************************************************************)
(* find_all_names_in_package                                               *)
(***************************************************************************)
NoSource == [name |-> "None"]

NoPackage == [name |-> <<>>, type |-> "None"]

(* utils: classify the path and name the package. *)
get_package_name_from_path(package_path) ==
    IF package_path.kind = "dir" THEN [name |-> package_path.name, type |-> "STANDARD"]
    ELSE IF package_path.file.suffix = s_py
    THEN [name |-> package_path.file.stem, type |-> "SINGLE_FILE"]
    ELSE IF package_path.file.suffix = s_so
    THEN [name |-> package_path.file.stem, type |-> "COMPILED"]
    ELSE NoPackage

(* utils: the provenance of a path. *)
get_package_source(package_path) == package_path.origin

IsReadablePy(file) == file.suffix = s_py /\ file.status # "unreadable"

(* utils: the module references under a package directory. *)
submodules(package_path) == SelectSeq(package_path.files, IsReadablePy)

(* utils: the dotted name of a submodule; a package's initializer is the   *)
(* package's own module.                                                   *)
get_modname_from_path(sub, package_path) ==
    IF sub.stem = s_init THEN package_path.name
    ELSE package_path.name \o s_dot \o sub.stem

ModuleRef(path, modname) == [path |-> path, modname |-> modname]

(* The condition under which a submodule is skipped (continue). *)
skip_submodule(modname, underlined) == underlined \/ contains(modname, "_")

RECURSIVE select_submodules(_, _, _, _, _)
select_submodules(subs, i, modules, package_path, underlined) ==
    IF i > Len(subs) THEN modules
    ELSE LET modname == get_modname_from_path(subs[i], package_path) IN
         select_submodules(subs, i + 1,
             IF skip_submodule(modname, underlined) THEN modules
             ELSE Append(modules,
                         ModuleRef(FilePath(subs[i], package_path.origin), modname)),
             package_path, underlined)

RECURSIVE scan_modules(_, _, _, _, _, _)
scan_modules(modules, i, acc, package_name, package_source, underlined) ==
    IF i > Len(modules) THEN acc
    ELSE LET o == get_names(modules[i].path, modules[i].modname, package_name,
                            package_source, underlined) IN
         IF o.exc # "none"
         THEN Raises(o.exc, acc.opened \o o.opened, acc.printed + o.printed)
         ELSE scan_modules(modules, i + 1,
                  Returns(acc.ret \o o.ret, acc.opened \o o.opened,
                          acc.printed + o.printed),
                  package_name, package_source, underlined)

modnames_of(modules) == [i \in 1..Len(modules) |-> modules[i].modname]

WithModules(out, modules) ==
    [ret |-> out.ret, exc |-> out.exc, opened |-> out.opened, printed |-> out.printed,
     loads |-> out.loads, modules |-> modnames_of(modules)]

(* Faulty variant: a compiled package is handed to the reflective extractor. *)
compiled_package_reflected(package_name, package_source, underlined) ==
    get_names_from_compiled(package_name, package_source, underlined)

(* The PackageType.COMPILED branch. *)
compiled_package(package_name, package_source, underlined) ==
    Returns(<<>>, <<>>, 0)

find_all_names_in_package(package_path, recursive, package_source, underlined) ==
    LET package_tuple == get_package_name_from_path(package_path) IN
    IF package_tuple = NoPackage THEN WithModules(Returns(<<>>, <<>>, 0), <<>>)
    ELSE LET package_name == package_tuple.name
             package_type == package_tuple.type
             source == IF package_source = NoSource
                       THEN get_package_source(package_path)
                       ELSE package_source
         IN
         IF package_type = "COMPILED"
         THEN WithModules(compiled_package(package_name, source, underlined), <<>>)
         ELSE LET modules ==
                    IF package_type = "SINGLE_FILE"
                    THEN <<ModuleRef(package_path, package_name)>>
                    ELSE IF recursive
                    THEN select_submodules(submodules(package_path), 1, <<>>,
                                           package_path, underlined)
                    ELSE <<ModuleRef(package_path, package_name)>>
              IN WithModules(scan_modules(modules, 1, Returns(<<>>, <<>>, 0),
                                          package_name, source, underlined),
                             modules)

(***************************************************************************)
(* The state machine                                                       *)
(***************************************************************************)
Idle == [call |-> "none"]

Init ==
    /\ op = "none"
    /\ args = Idle
    /\ ret = <<>>
    /\ exc = "none"
    /\ opened = <<>>
    /\ printed = 0
    /\ loads = 0
    /\ scanned = <<>>

Finish(out) ==
    /\ ret' = out.ret
    /\ exc' = out.exc
    /\ opened' = out.opened
    /\ printed' = out.printed
    /\ loads' = loads + out.loads

CallGetNamesFromFile ==
    /\ op = "none"
    /\ \E module \in FileInputs, package_source \in SourceInputs,
          only_all \in BOOLEAN, underlined \in BOOLEAN :
          /\ op' = "get_names_from_file"
          /\ args' = [module |-> module, modname |-> s_x, package |-> s_x,
                      package_source |-> package_source, only_all |-> only_all,
                      underlined |-> underlined]
          /\ Finish(get_names_from_file(module, s_x, s_x, package_source,
                                        only_all, underlined))
          /\ scanned' = <<>>

CallGetNames ==
    /\ op = "none"
    /\ \E modpath \in DirInputs \cup SingleFileInputs, package_source \in SourceInputs,
          underlined \in BOOLEAN :
          LET modname == get_package_name_from_path(modpath).name IN
          /\ op' = "get_names"
          /\ args' = [modpath |-> modpath, modname |-> modname, package_name |-> modname,
                      package_source |-> package_source, underlined |-> underlined]
          /\ Finish(get_names(modpath, modname, modname, package_source, underlined))
          /\ scanned' = <<>>

CallFindAllNamesInPackage ==
    /\ op = "none"
    /\ \E package_path \in PathInputs, recursive \in BOOLEAN,
          package_source \in SourceInputs \cup {NoSource}, underlined \in BOOLEAN :
          LET out == find_all_names_in_package(package_path, recursive, package_source,
                                               underlined) IN
          /\ op' = "find_all_names_in_package"
          /\ args' = [package_path |-> package_path, recursive |-> recursive,
                      package_source |-> package_source, underlined |-> underlined]
          /\ Finish(out)
          /\ scanned' = out.modules

CallGetNamesFromCompiled ==
    /\ op = "none"
    /\ \E package \in ModuleInputs, source \in SourceInputs, underlined \in BOOLEAN :
          /\ op' = "get_names_from_compiled"
          /\ args' = [package |-> package, source |-> source, underlined |-> underlined]
          /\ Finish(get_names_from_compiled(package, source, underlined))
          /\ scanned' = <<>>

(* The caller takes the result; the next call starts from a clean slate. *)
Return ==
    /\ op # "none"
    /\ op' = "none"
    /\ args' = Idle
    /\ ret' = <<>>
    /\ exc' = "none"
    /\ opened' = <<>>
    /\ printed' = 0
    /\ loads' = 0
    /\ scanned' = <<>>

Next ==
    \/ CallGetNamesFromFile
    \/ CallGetNames
    \/ CallFindAllNamesInPackage
    \/ CallGetNamesFromCompiled
    \/ Return

Spec == Init /\ [][Next]_vars

(***************************************************************************)
(* Vocabulary of the properties                                            *)
(***************************************************************************)
IsAllTarget(t) == t = Name(s_all)

NotAllTarget(t) == t # Name(s_all)

IsPlainName(t) == t.kind = "Name"

TargetsAll(node) ==
    /\ node.kind = "Assign"
    /\ \E j \in 1..Len(node.targets) : IsAllTarget(node.targets[j])

(* __all__ = [<constants>]: the export list the extractor accepts. *)
IsAcceptedAll(node) ==
    /\ TargetsAll(node)
    /\ node.value.kind = "List"
    /\ \A k \in 1..Len(node.value.elts) : node.value.elts[k].kind = "Constant"

(* __all__ = <a tuple, a non-literal, a list with a non-constant element>. *)
IsMalformedAll(node) == TargetsAll(node) /\ ~IsAcceptedAll(node)

(* The first statement that is an accepted export list, 0 when none is. *)
FirstAllIdx(body) ==
    IF \E i \in 1..Len(body) : IsAcceptedAll(body[i])
    THEN CHOOSE i \in 1..Len(body) :
            /\ IsAcceptedAll(body[i])
            /\ \A h \in 1..(i - 1) : ~IsAcceptedAll(body[h])
    ELSE 0

ExportList(body) == body[FirstAllIdx(body)].value.elts

AllStrings(elts) == \A k \in 1..Len(elts) : elts[k].value.t = "str"

ExportRecords(elts, modname, package, package_source) ==
    [k \in 1..Len(elts) |-> <<elts[k].value.s, modname, package, package_source.value>>]

RECURSIVE Flatten(_)
Flatten(seqs) == IF seqs = <<>> THEN <<>> ELSE Head(seqs) \o Flatten(Tail(seqs))

TargetIds(targets) == [j \in 1..Len(targets) |-> targets[j].id]

(* The names a statement declares at top level; with_all tells whether a   *)
(* target named __all__ counts as one.                                     *)
DeclaredNames(node, with_all) ==
    IF node.kind \in {"FunctionDef", "ClassDef"} THEN <<node.name>>
    ELSE IF node.kind = "Assign"
    THEN LET plain == SelectSeq(node.targets, IsPlainName) IN
         TargetIds(IF with_all THEN plain ELSE SelectSeq(plain, NotAllTarget))
    ELSE <<>>

ConventionRecords(body, with_all, underlined, modname, package, package_source) ==
    LET Visible(n) == underlined \/ n[1] # "_"
        names == SelectSeq(Flatten([i \in 1..Len(body) |-> DeclaredNames(body[i], with_all)]),
                           Visible)
    IN [k \in 1..Len(names) |-> <<names[k], modname, package, package_source.value>>]

StripAllTargets(node) == [node EXCEPT !.targets = SelectSeq(@, NotAllTarget)]

WithoutMalformedAll(body) ==
    [i \in 1..Len(body) |->
        IF IsMalformedAll(body[i]) THEN StripAllTargets(body[i]) ELSE body[i]]

HasPrivateSegment(modname) ==
    \E i \in 1..Len(modname) :
        /\ modname[i] = "_"
        /\ (i = 1 \/ modname[i - 1] = ".")

(***************************************************************************)
(* C1                                                                      *)
(***************************************************************************)
C1_Case ==
    /\ op = "get_names_from_file"
    /\ args.module.status = "ok"
    /\ FirstAllIdx(args.module.body) # 0
    /\ AllStrings(ExportList(args.module.body))

(* C1: for a parseable file whose export list is __all__ = [<string        *)
(* literals>], get_names_from_file returns one record per element of the   *)
(* list, in list order, and nothing else, whatever else the file declares  *)
(* before or after it and whatever underlined and only_all are;            *)
(* underscore-prefixed names of the list are kept.  The result is a        *)
(* function of the file alone, so a second run returns the same.           *)
C1_ExportListIsResult ==
    C1_Case =>
        /\ exc = "none"
        /\ ret = ExportRecords(ExportList(args.module.body), args.modname,
                               args.package, args.package_source)

C1_Witness ==
    /\ C1_Case
    /\ ~args.underlined
    /\ args.only_all
    /\ Len(args.module.body) = 3
    /\ FirstAllIdx(args.module.body) = 2
    /\ args.module.body[1].kind = "FunctionDef"
    /\ args.module.body[3].kind = "ClassDef"
    /\ Len(ret) = 2
    /\ ret[2][1] = s_hidden

(***************************************************************************)
(* C2                                                                      *)
(***************************************************************************)
EffectiveSource ==
    IF args.package_source = NoSource THEN get_package_source(args.package_path)
    ELSE args.package_source

C2_Case ==
    /\ op = "find_all_names_in_package"
    /\ args.package_path.kind = "dir"
    /\ has_init(args.package_path)
    /\ init_file(args.package_path).status = "ok"
    /\ FirstAllIdx(init_file(args.package_path).body) # 0
    /\ Len(ExportList(init_file(args.package_path).body)) > 0
    /\ AllStrings(ExportList(init_file(args.package_path).body))

(* C2: for a directory package whose __init__.py has a non-empty __all__   *)
(* list, find_all_names_in_package returns exactly the records of that     *)
(* list, for either recursive, and opens no other file.  Stated for        *)
(* underlined = True, where the submodule filter alone decides the scan.   *)
C2_InitListIsResult ==
    (C2_Case /\ args.underlined) =>
        /\ exc = "none"
        /\ ret = ExportRecords(ExportList(init_file(args.package_path).body),
                               args.package_path.name, args.package_path.name,
                               EffectiveSource)
        /\ opened = <<s_init \o s_py>>

(***************************************************************************)
(* C3                                                                      *)
(***************************************************************************)
InitExportsNothing(modpath) ==
    \/ ~has_init(modpath)
    \/ /\ init_file(modpath).status = "ok"
       /\ \A i \in 1..Len(init_file(modpath).body) : ~TargetsAll(init_file(modpath).body[i])
    \/ /\ init_file(modpath).status = "ok"
       /\ FirstAllIdx(init_file(modpath).body) # 0
       /\ ExportList(init_file(modpath).body) = <<>>

AllReadable(files) == \A i \in 1..Len(files) : files[i].status # "unreadable"

C3_Case ==
    /\ op = "get_names"
    /\ is_dir(args.modpath)
    /\ InitExportsNothing(args.modpath)
    /\ AllReadable(glob_py(args.modpath))

C4_Case ==
    /\ op = "get_names_from_file"
    /\ args.module.status = "ok"
    /\ FirstAllIdx(args.module.body) = 0
    /\ ~args.only_all

(* C4 as claimed: with no export-list override and only_all = False the    *)
(* result is, in declaration order and with repetitions, the names of the  *)
(* top-level functions, classes and plain-identifier assignment targets    *)
(* that pass the privacy filter.                                           *)
C4_AllPlainTargetsReported ==
    C4_Case =>
        /\ exc = "none"
        /\ ret = ConventionRecords(args.module.body, TRUE, args.underlined,
                                   args.modname, args.package, args.package_source)

(* C4 amended: the same, with the plain-identifier assignment targets      *)
(* other than __all__ (the target of a rejected export list is never       *)
(* reported); with underlined = False no returned name starts with an      *)
(* underscore.                                                             *)
C4_ConventionNames ==
    C4_Case =>
        /\ exc = "none"
        /\ ret = ConventionRecords(args.module.body, FALSE, args.underlined,
                                   args.modname, args.package, args.package_source)
        /\ ~args.underlined => \A k \in 1..Len(ret) : ~startswith(ret[k][1], <<"_">>)

C4_Witness ==
    /\ C4_Case
    /\ args.underlined
    /\ \E i \in 1..Len(args.module.body) : IsMalformedAll(args.module.body[i])
    /\ Len(ret) = 3
    /\ ret[1] = ret[2]
    /\ ret[3][1] = s_hidden

(***************************************************************************)
(* C5                                                                      *)
(***************************************************************************)
(* C5: get_names_from_compiled called with builtins or python_crun returns *)
(* an empty result for either underlined, and the call leaves the          *)
(* load-attempt counter unchanged.                                         *)
C5_DenyListNeverLoads ==
    [][(op' = "get_names_from_compiled" /\ args'.package \in {s_builtins, s_python_crun})
        => (ret' = <<>> /\ exc' = "none" /\ loads' = loads)]_vars

C5_Witness ==
    /\ op = "get_names_from_compiled"
    /\ args.package = s_python_crun
    /\ args.underlined
    /\ ret = <<>>
    /\ loads = 0

(***************************************************************************)
(* C6                                                                      *)
(***************************************************************************)
IsBad(file) == file.status \in {"syntax_error", "unreadable"}

C6_Case ==
    /\ op = "find_all_names_in_package"
    /\ args.package_path.kind = "dir"
    /\ \E i \in 1..Len(glob_py(args.package_path)) : IsBad(glob_py(args.package_path)[i])

(* C6: when a file of a package is unreadable or syntactically invalid,    *)
(* the extractor returns nothing for it and find_all_names_in_package does *)
(* not abort: it goes on and returns the names of every other file, in     *)
(* enumeration order (checked on the non-recursive scan of a directory     *)
(* whose initializer exports nothing).                                     *)
C6_BadFileNeverAborts ==
    C6_Case =>
        /\ exc = "none"
        /\ (~args.recursive /\ InitExportsNothing(args.package_path)) =>
              ret = Flatten([i \in 1..Len(glob_py(args.package_path)) |->
                       IF IsBad(glob_py(args.package_path)[i]) THEN <<>>
                       ELSE get_names_from_file(glob_py(args.package_path)[i],
                                args.package_path.name \o <<".">>
                                    \o glob_py(args.package_path)[i].stem,
                                args.package_path.name, EffectiveSource, FALSE,
                                args.underlined).ret])

(***************************************************************************)
(* C7                                                                      *)
(***************************************************************************)
C7_Case ==
    /\ op = "find_all_names_in_package"
    /\ get_package_name_from_path(args.package_path).type = "COMPILED"

C8_Case ==
    /\ op = "find_all_names_in_package"
    /\ args.package_path.kind = "dir"
    /\ args.recursive

(* C8: in recursive mode a submodule is left out exactly when its dotted   *)
(* name has an underscore-prefixed segment and underlined is not           *)
(* requested; every other enumerated submodule is scanned.                 *)
C8_PrivateSubmodulesOnlyExcluded ==
    C8_Case =>
        LET Wanted(sub) ==
                ~(HasPrivateSegment(get_modname_from_path(sub, args.package_path))
                  /\ ~args.underlined)
            subs == SelectSeq(submodules(args.package_path), Wanted)
        IN scanned = [i \in 1..Len(subs) |->
                         get_modname_from_path(subs[i], args.package_path)]

(***************************************************************************)
(* C9                                                                      *)
(***************************************************************************)
C9_Case ==
    /\ op = "get_names_from_compiled"
    /\ loads = 1
    /\ import_module(args.package).exc # "none"

(* C9: whatever failure importing the module raises, get_names_from_       *)
(* compiled returns an empty result and propagates nothing.                *)
C9_LoadFailureIsEmpty == C9_Case => (exc = "none" /\ ret = <<>>)

(***************************************************************************)
(* C10                                                                     *)
(***************************************************************************)
C10_Case ==
    /\ op = "get_names_from_file"
    /\ args.module.status = "ok"
    /\ \E i \in 1..Len(args.module.body) : IsMalformedAll(args.module.body[i])

(* C10: a top-level __all__ assignment whose value is not a list of        *)
(* constants never makes get_names_from_file raise; the result is that of  *)
(* the same file without that __all__ target: no name of the rejected      *)
(* value, not __all__ itself, and, when no accepted export list is in the  *)
(* file, the convention-based names with only_all = False and nothing with *)
(* only_all = True.                                                        *)
C10_MalformedAllIsIgnored ==
    C10_Case =>
        /\ exc = "none"
        /\ ret = get_names_from_file(
                     [args.module EXCEPT !.body = WithoutMalformedAll(@)],
                     args.modname, args.package, args.package_source,
                     args.only_all, args.underlined).ret
        /\ \A k \in 1..Len(ret) :
              ret[k][1] = s_all => FirstAllIdx(args.module.body) # 0
        /\ FirstAllIdx(args.module.body) = 0 =>
              ret = IF args.only_all THEN <<>>
                    ELSE ConventionRecords(args.module.body, FALSE, args.underlined,
                                           args.modname, args.package,
                                           args.package_source)

C10_Witness ==
    /\ C10_Case
    /\ FirstAllIdx(args.module.body) = 0
    /\ ~args.only_all
    /\ args.underlined
    /\ \E i \in 1..Len(args.module.body) :
          /\ IsMalformedAll(args.module.body[i])
          /\ args.module.body[i].value.kind = "List"
    /\ \E i \in 1..Len(args.module.body) :
          /\ IsMalformedAll(args.module.body[i])
          /\ Len(args.module.body[i].targets) = 2
    /\ ret = <<NameRecord(s_x, args.modname, args.package, args.package_source)>>
====
